---------------------------- MODULE Spec2Model ----------------------------
(***************************************************************************)
(* Scheduler state of the Ballista scheduler                               *)
(* (ballista/rust/scheduler/src/state/mod.rs): SchedulerState composes an  *)
(* ExecutorManager (task slots and reservations) and a TaskManager (the    *)
(* execution graph of every job).  offer_reservation and                   *)
(* update_task_statuses are the two handlers of the composition.           *)
(***************************************************************************)
EXTENDS Integers, Sequences, FiniteSets, TLC

\* ------------------------------------------------------------------------
\* Bounds of the model
\* ------------------------------------------------------------------------
MaxSlots == 2
MaxOffer == 2
MaxStatuses == 1
MaxExcess == 1
MaxRetries == 1

\* ------------------------------------------------------------------------
\* Program constants
\* ------------------------------------------------------------------------
TaskRetryBudget == 4

\* ------------------------------------------------------------------------
\* Universe: executors, jobs and the stages of their execution graphs
\* ------------------------------------------------------------------------
Executors == {"e1", "e2"}
ExecutorOrder == <<"e1", "e2">>
NoExecutor == "none"
\* ExecutorSpecification.task_slots of each executor
TaskSlots == [e1 |-> MaxSlots, e2 |-> 1]

Jobs == {"j1", "j2", "j3"}
\* partitions of each stage; stage s+1 reads every partition of stage s
StagePartitions == [j1 |-> <<2, 1>>, j2 |-> <<1>>, j3 |-> <<>>]
NumStages(j) == Len(StagePartitions[j])
StageTasks(j, s) == {<<j, s, p>> : p \in 0..(StagePartitions[j][s] - 1)}
JobTasks(j) == UNION {StageTasks(j, s) : s \in 1..NumStages(j)}
Tasks == UNION {JobTasks(j) : j \in Jobs}
JobOf(t) == t[1]
StageOf(t) == t[2]
PartitionOf(t) == t[3]
InputTasks(t) == IF StageOf(t) = 1 THEN {} ELSE StageTasks(JobOf(t), StageOf(t) - 1)

Procs == {1, 2}

\* names of tables and the providers CREATE EXTERNAL TABLE builds for them (one
\* for each location)
TableNames == {"t", "u"}
Providers == {"a", "b"}
NoTable == "none"

VARIABLES
    executors,              \* ExecutorManager: ids with metadata recorded
    retired,                \* ids of executors that were deregistered
    total_task_slots,       \* ExecutorManager: ExecutorData.total_task_slots
    available_task_slots,   \* ExecutorManager: ExecutorData.available_task_slots
    job_status,             \* TaskManager: status of each job
    job_order,              \* TaskManager: jobs in submission order
    task,                   \* TaskManager: state of each partition of each graph
    outstanding,            \* reservations handed to callers and not yet given back
    dispatched,             \* <<executor, task>> pairs accepted by an executor's LaunchTask
    calls,                  \* handler invocations: position and locals
    plan_failed,            \* jobs whose submit_job failed before the graph was built
    tables,                 \* BallistaContextState.tables: provider registered by name
    context_tables          \* tables registered with the shared SessionContext

vars == <<executors, retired, total_task_slots, available_task_slots, job_status, job_order,
          task, outstanding, dispatched, calls, plan_failed, tables, context_tables>>

emVars == <<executors, retired, total_task_slots, available_task_slots>>
tmVars == <<job_status, job_order, task>>
clientVars == <<tables, context_tables>>

\* ------------------------------------------------------------------------
\* Sequence helpers
\* ------------------------------------------------------------------------
RECURSIVE Count(_, _)
Count(seq, x) ==
    IF seq = <<>> THEN 0
    ELSE (IF Head(seq) = x THEN 1 ELSE 0) + Count(Tail(seq), x)

SeqsUpTo(S, n) == UNION {[1..k -> S] : k \in 0..n}

RECURSIVE SumOver(_, _)
SumOver(f, S) ==
    IF S = {} THEN 0
    ELSE LET x == CHOOSE y \in S : TRUE IN f[x] + SumOver(f, S \ {x})

Min(a, b) == IF a < b THEN a ELSE b

\* ExecutorReservation::new_free(executor_id): a reservation carries its executor id only
NewFree(e) == e


\* ------------------------------------------------------------------------
\* ExecutorManager (state/executor_manager.rs)
\* ------------------------------------------------------------------------
TotalAvailable(avail, live) == SumOver(avail, live)

\* reserve_slots(n): up to n free reservations, one executor after the other in
\* id order (round-robin), skipping executors without an available slot
RECURSIVE ReserveFrom(_, _, _, _, _)
ReserveFrom(n, i, avail, live, acc) ==
    IF n = 0 \/ TotalAvailable(avail, live) = 0
    THEN [reservations |-> acc, available |-> avail]
    ELSE LET e == ExecutorOrder[i]
             next == (i % Len(ExecutorOrder)) + 1
         IN  IF e \in live /\ avail[e] > 0
             THEN ReserveFrom(n - 1, next, [avail EXCEPT ![e] = @ - 1], live,
                              Append(acc, NewFree(e)))
             ELSE ReserveFrom(n, next, avail, live, acc)

\* variant: as many reservations as asked for, whatever is available
ReserveSlots_Unchecked(n, avail, live) ==
    [reservations |-> [i \in 1..n |-> NewFree(ExecutorOrder[1])], available |-> avail]

ReserveSlots(n, avail, live) == ReserveFrom(n, 1, avail, live, <<>>)

\* variant: a slot is given back to the executor named, registered or not
RECURSIVE CancelReservations_Recreates(_, _, _)
CancelReservations_Recreates(res, avail, live) ==
    IF res = <<>> THEN avail
    ELSE CancelReservations_Recreates(Tail(res),
                                      [avail EXCEPT ![Head(res)] = @ + 1], live)

\* cancel_reservations(reservations): each slot goes back to its executor; a
\* reservation of an executor that is no longer registered is dropped
RECURSIVE CancelReservations(_, _, _)
CancelReservations(res, avail, live) ==
    IF res = <<>> THEN avail
    ELSE LET e == Head(res)
         IN  CancelReservations(Tail(res),
                                IF e \in live THEN [avail EXCEPT ![e] = @ + 1] ELSE avail,
                                live)

\* ------------------------------------------------------------------------
\* TaskManager (state/task_manager.rs, state/execution_graph.rs)
\* ------------------------------------------------------------------------
PendingTasks(T, J) == {t \in Tasks : T[t].state = "Pending" /\ J[JobOf(t)] = "Running"}

RunningOn(T, e) == {t \in Tasks : T[t].state = "Running" /\ T[t].executor = e}

JobAge(j, order) == CHOOSE i \in 1..Len(order) : order[i] = j

TaskKey(t, order) == JobAge(JobOf(t), order) * 100 + StageOf(t) * 10 + PartitionOf(t)

\* a task is local to e when one of its input partitions was written on e
IsLocal(t, e, T) == \E u \in InputTasks(t) : T[u].state = "Completed" /\ T[u].executor = e

\* matching policy: local tasks first, then oldest job, then lowest (stage, partition)
PickTask(e, T, J, order) ==
    LET pend == PendingTasks(T, J)
        local == {t \in pend : IsLocal(t, e, T)}
        pool == IF local # {} THEN local ELSE pend
    IN  CHOOSE t \in pool : \A u \in pool : TaskKey(t, order) <= TaskKey(u, order)

\* variant: a reservation stays unassigned when no Pending task is local to its
\* executor (tasks without inputs are local anywhere)
RECURSIVE FillFrom_LocalOnly(_, _, _, _, _, _)
FillFrom_LocalOnly(res, T, J, order, assignments, unassigned) ==
    IF res = <<>>
    THEN [assignments |-> assignments, unassigned |-> unassigned, task |-> T,
          pending_tasks |-> Cardinality(PendingTasks(T, J))]
    ELSE LET e == Head(res)
             pool == {t \in PendingTasks(T, J) : InputTasks(t) = {} \/ IsLocal(t, e, T)}
         IN  IF pool = {}
             THEN FillFrom_LocalOnly(Tail(res), T, J, order, assignments,
                                     Append(unassigned, e))
             ELSE LET t == CHOOSE t \in pool :
                               \A u \in pool : TaskKey(t, order) <= TaskKey(u, order)
                  IN  FillFrom_LocalOnly(Tail(res),
                          [T EXCEPT ![t] = [@ EXCEPT !.state = "Running", !.executor = e]],
                          J, order, Append(assignments, <<e, t>>), unassigned)

\* fill_reservations: walk the reservations in input order, bind each to a
\* Pending task (Pending -> Running on the reservation's executor)
RECURSIVE FillFrom(_, _, _, _, _, _)
FillFrom(res, T, J, order, assignments, unassigned) ==
    IF res = <<>>
    THEN [assignments |-> assignments, unassigned |-> unassigned, task |-> T,
          pending_tasks |-> Cardinality(PendingTasks(T, J))]
    ELSE LET e == Head(res)
         IN  IF PendingTasks(T, J) = {}
             THEN FillFrom(Tail(res), T, J, order, assignments, Append(unassigned, e))
             ELSE LET t == PickTask(e, T, J, order)
                  IN  FillFrom(Tail(res),
                               [T EXCEPT ![t] = [@ EXCEPT !.state = "Running", !.executor = e]],
                               J, order, Append(assignments, <<e, t>>), unassigned)

FillReservations(res, T, J, order) == FillFrom(res, T, J, order, <<>>, <<>>)

\* launch_task failing: the task goes back to Pending with its attempt bumped
LaunchTaskFailed(T, e, t) ==
    IF T[t].state = "Running" /\ T[t].executor = e
    THEN [T EXCEPT ![t] = [state |-> "Pending", executor |-> NoExecutor,
                           attempt |-> @.attempt + 1]]
    ELSE T

\* graph of a submitted job: partitions of the first stage Pending, the others blocked
InitialTask(t) ==
    [state |-> IF StageOf(t) = 1 THEN "Pending" ELSE "Blocked",
     executor |-> NoExecutor, attempt |-> 0]

StageComplete(T, j, s) == \A u \in StageTasks(j, s) : T[u].state = "Completed"

\* variant: the output is recorded and a completed stage unblocks nothing
CompleteTask_NoUnblock(G, t, e) ==
    [G EXCEPT !.task[t] = [@ EXCEPT !.state = "Completed", !.executor = e]]

\* a Completed status: record the output location; a completed stage unblocks the
\* next one, a completed last stage completes the job
CompleteTask(G, t, e) ==
    LET j == JobOf(t)
        s == StageOf(t)
        T1 == [G.task EXCEPT ![t] = [@ EXCEPT !.state = "Completed", !.executor = e]]
    IN  IF ~StageComplete(T1, j, s) THEN [G EXCEPT !.task = T1]
        ELSE IF s = NumStages(j)
        THEN [G EXCEPT !.task = T1, !.job_status[j] = "Completed",
                       !.events = Append(@, <<"JobCompleted", j>>)]
        ELSE [G EXCEPT !.task = [u \in Tasks |->
                                    IF u \in StageTasks(j, s + 1) /\ T1[u].state = "Blocked"
                                    THEN [T1[u] EXCEPT !.state = "Pending"]
                                    ELSE T1[u]],
                       !.events = Append(@, <<"StageCompleted", j>>)]

\* a failure that is not retried: the job fails, its other Running tasks are cancelled
FailJob(G, t) ==
    LET j == JobOf(t)
    IN  [G EXCEPT !.task = [u \in Tasks |->
                               IF u = t THEN [G.task[u] EXCEPT !.state = "Failed"]
                               ELSE IF JobOf(u) = j /\ G.task[u].state = "Running"
                               THEN [G.task[u] EXCEPT !.state = "Cancelled"]
                               ELSE G.task[u]],
                   !.job_status[j] = "Failed",
                   !.events = Append(@, <<"JobFailed", j>>)]

\* variant: the attempts of all the tasks of the job count against the budget
ApplyStatus_PerJobAttempts(G, st, e) ==
    LET t == st.task
        cur == G.task[t]
        used == SumOver([u \in Tasks |-> G.task[u].attempt], JobTasks(JobOf(t)))
    IN  IF G.job_status[JobOf(t)] # "Running" THEN G
        ELSE CASE st.kind = "Running" -> G
               [] st.kind = "Completed" ->
                    IF cur.state \in {"Pending", "Running"} THEN CompleteTask(G, t, e) ELSE G
               [] st.kind = "FailedRetriable" ->
                    IF cur.state # "Running" THEN G
                    ELSE IF used + 1 > TaskRetryBudget THEN FailJob(G, t)
                    ELSE [G EXCEPT !.task[t] = [state |-> "Pending", executor |-> NoExecutor,
                                                attempt |-> cur.attempt + 1]]
               [] st.kind = "FailedFatal" ->
                    IF cur.state = "Running" THEN FailJob(G, t) ELSE G

\* one TaskStatus; G = [task, job_status, events]
ApplyStatus(G, st, e) ==
    LET t == st.task
        cur == G.task[t]
    IN  IF G.job_status[JobOf(t)] # "Running" THEN G
        ELSE CASE st.kind = "Running" -> G
               [] st.kind = "Completed" ->
                    IF cur.state \in {"Pending", "Running"} THEN CompleteTask(G, t, e) ELSE G
               [] st.kind = "FailedRetriable" ->
                    IF cur.state # "Running" THEN G
                    ELSE IF cur.attempt + 1 > TaskRetryBudget THEN FailJob(G, t)
                    ELSE [G EXCEPT !.task[t] = [state |-> "Pending", executor |-> NoExecutor,
                                                attempt |-> cur.attempt + 1]]
               [] st.kind = "FailedFatal" ->
                    IF cur.state = "Running" THEN FailJob(G, t) ELSE G

\* TaskManager::update_task_statuses: the statuses in order
RECURSIVE ApplyStatuses(_, _, _)
ApplyStatuses(G, statuses, e) ==
    IF statuses = <<>> THEN G
    ELSE ApplyStatuses(ApplyStatus(G, Head(statuses), e), Tail(statuses), e)

\* ------------------------------------------------------------------------
\* Handler invocations
\* ------------------------------------------------------------------------
NoSlots == [e \in Executors |-> 0]

IdleCall ==
    [op |-> "none", pc |-> "idle", executor_id |-> NoExecutor,
     reservations |-> <<>>, assignments |-> <<>>, free_list |-> <<>>,
     pending_tasks |-> 0, launched |-> <<>>, failed |-> <<>>, cancelled |-> <<>>,
     new_reservations |-> <<>>, events |-> <<>>, outcome |-> "none",
     fill |-> "none", unassigned |-> <<>>, pending_before |-> 0,
     available_before |-> NoSlots, lock |-> "none",
     name |-> NoTable, provider |-> NoTable, if_not_exists |-> FALSE,
     table_exists |-> FALSE]

Quiet == \A p \in Procs : calls[p].pc = "idle"

Add(bag, res) == [e \in Executors |-> bag[e] + Count(res, e)]
Remove(bag, res) == [e \in Executors |-> bag[e] - Count(res, e)]
Held(res) == \A e \in Executors : Count(res, e) <= outstanding[e]

\* executors stop the tasks the graph no longer has Running on them
Prune(D, T) == {d \in D : T[d[2]].state = "Running" /\ T[d[2]].executor = d[1]}

\* retries so far, over all tasks
Retries == SumOver([t \in Tasks |-> task[t].attempt], Tasks)

StatusKinds == {"Running", "Completed", "FailedRetriable", "FailedFatal"}
Terminal(st) == st.kind # "Running"

Init ==
    /\ executors = {}
    /\ retired = {}
    /\ total_task_slots = NoSlots
    /\ available_task_slots = NoSlots
    /\ job_status = [j \in Jobs |-> "None"]
    /\ job_order = <<>>
    /\ task = [t \in Tasks |-> [state |-> "None", executor |-> NoExecutor, attempt |-> 0]]
    /\ outstanding = NoSlots
    /\ dispatched = {}
    /\ calls = [p \in Procs |-> IdleCall]
    /\ plan_failed = {}
    /\ tables = [n \in TableNames |-> NoTable]
    /\ context_tables = [n \in TableNames |-> NoTable]

\* ---- ExecutorManager operations called by the scheduler's event loop ----

\* variant: the reservations are handed out and the slots stay available
RegisterExecutor_KeepsAvailable(e, reserve_all) ==
    /\ e \notin executors \cup retired
    /\ executors' = executors \cup {e}
    /\ total_task_slots' = [total_task_slots EXCEPT ![e] = TaskSlots[e]]
    /\ available_task_slots' = [available_task_slots EXCEPT ![e] = TaskSlots[e]]
    /\ outstanding' =
           [outstanding EXCEPT ![e] = IF reserve_all THEN @ + TaskSlots[e] ELSE @]
    /\ UNCHANGED <<retired, tmVars, dispatched, calls>>
    /\ UNCHANGED <<plan_failed, clientVars>>

\* register_executor(metadata, data, reserve_all)
RegisterExecutor(e, reserve_all) ==
    /\ e \notin executors \cup retired
    /\ executors' = executors \cup {e}
    /\ total_task_slots' = [total_task_slots EXCEPT ![e] = TaskSlots[e]]
    /\ available_task_slots' =
           [available_task_slots EXCEPT ![e] = IF reserve_all THEN 0 ELSE TaskSlots[e]]
    /\ outstanding' =
           [outstanding EXCEPT ![e] = IF reserve_all THEN @ + TaskSlots[e] ELSE @]
    /\ UNCHANGED <<retired, tmVars, dispatched, calls>>
    /\ UNCHANGED <<plan_failed, clientVars>>

\* reserve_slots(n) called directly
ReserveSlotsCall(n) ==
    LET r == ReserveSlots(n, available_task_slots, executors)
    IN  /\ available_task_slots' = r.available
        /\ outstanding' = Add(outstanding, r.reservations)
        /\ UNCHANGED <<executors, retired, total_task_slots, tmVars, dispatched, calls>>
    /\ UNCHANGED <<plan_failed, clientVars>>

\* cancel_reservations(reservations) called directly with reservations the caller holds
CancelReservationsCall(res) ==
    /\ res # <<>>
    /\ Held(res)
    /\ available_task_slots' = CancelReservations(res, available_task_slots, executors)
    /\ outstanding' = Remove(outstanding, res)
    /\ UNCHANGED <<executors, retired, total_task_slots, tmVars, dispatched, calls>>
    /\ UNCHANGED <<plan_failed, clientVars>>

\* expire(now) for an executor whose heartbeat timed out: it is deregistered and
\* its Running tasks are surfaced to the TaskManager as Failed(retriable)
RECURSIVE FailRunningOn(_, _)
FailRunningOn(G, e) ==
    LET run == {t \in RunningOn(G.task, e) : G.job_status[JobOf(t)] = "Running"}
    IN  IF run = {} THEN G
        ELSE LET t == CHOOSE u \in run :
                          \A v \in run : TaskKey(u, job_order) <= TaskKey(v, job_order)
             IN  FailRunningOn(ApplyStatus(G, [task |-> t, kind |-> "FailedRetriable"], e), e)

Expire(e) ==
    /\ e \in executors
    /\ Retries + Cardinality(RunningOn(task, e)) <= MaxRetries
    /\ executors' = executors \ {e}
    /\ retired' = retired \cup {e}
    /\ total_task_slots' = [total_task_slots EXCEPT ![e] = 0]
    /\ available_task_slots' = [available_task_slots EXCEPT ![e] = 0]
    /\ LET G == FailRunningOn([task |-> task, job_status |-> job_status, events |-> <<>>], e)
       IN  /\ task' = G.task
           /\ job_status' = G.job_status
    /\ dispatched' = {d \in Prune(dispatched, task') : d[1] # e}
    /\ UNCHANGED <<job_order, outstanding, calls>>
    /\ UNCHANGED <<plan_failed, clientVars>>

\* ---- SchedulerState::submit_job ----
\* variant: every partition of the graph starts Pending
SubmitJob_AllPending(j, planned) ==
    /\ job_status[j] = "None"
    /\ j \notin plan_failed
    /\ plan_failed' = IF planned THEN plan_failed ELSE plan_failed \cup {j}
    /\ IF planned
       THEN /\ job_status' = [job_status EXCEPT ![j] = "Running"]
            /\ job_order' = Append(job_order, j)
            /\ task' = [t \in Tasks |->
                           IF JobOf(t) = j
                           THEN [state |-> "Pending", executor |-> NoExecutor, attempt |-> 0]
                           ELSE task[t]]
       ELSE UNCHANGED tmVars
    /\ UNCHANGED <<emVars, outstanding, dispatched, calls>>
    /\ UNCHANGED clientVars

\* variant: a graph without partitions is left Running
SubmitJob_NeverCompletes(j, planned) ==
    /\ job_status[j] = "None"
    /\ j \notin plan_failed
    /\ plan_failed' = IF planned THEN plan_failed ELSE plan_failed \cup {j}
    /\ IF planned
       THEN /\ job_status' = [job_status EXCEPT ![j] = "Running"]
            /\ job_order' = Append(job_order, j)
            /\ task' = [t \in Tasks |-> IF JobOf(t) = j THEN InitialTask(t) ELSE task[t]]
       ELSE UNCHANGED tmVars
    /\ UNCHANGED <<emVars, outstanding, dispatched, calls>>
    /\ UNCHANGED clientVars

\* variant: the graph is built although the plan could not be made
SubmitJob_IgnoresPlanError(j, planned) ==
    /\ job_status[j] = "None"
    /\ j \notin plan_failed
    /\ plan_failed' = IF planned THEN plan_failed ELSE plan_failed \cup {j}
    /\ job_status' = [job_status EXCEPT ![j] =
                          IF JobTasks(j) = {} THEN "Completed" ELSE "Running"]
    /\ job_order' = Append(job_order, j)
    /\ task' = [t \in Tasks |-> IF JobOf(t) = j THEN InitialTask(t) ELSE task[t]]
    /\ UNCHANGED <<emVars, outstanding, dispatched, calls>>
    /\ UNCHANGED clientVars

\* planned: the plan is optimized and task_manager.submit_job builds the graph; a
\* graph without partitions is complete at once
SubmitJob(j, planned) ==
    /\ job_status[j] = "None"
    /\ j \notin plan_failed
    /\ plan_failed' = IF planned THEN plan_failed ELSE plan_failed \cup {j}
    /\ IF planned
       THEN /\ job_status' = [job_status EXCEPT ![j] =
                                  IF JobTasks(j) = {} THEN "Completed" ELSE "Running"]
            /\ job_order' = Append(job_order, j)
            /\ task' = [t \in Tasks |-> IF JobOf(t) = j THEN InitialTask(t) ELSE task[t]]
       ELSE UNCHANGED tmVars
    /\ UNCHANGED <<emVars, outstanding, dispatched, calls>>
    /\ UNCHANGED clientVars

\* the events submit_job hands to its caller: it returns Result<()>
SubmitJobEvents(j, planned) == <<>>

\* ---- SchedulerState::offer_reservation ----

\* where an invocation goes once an assignment has been dealt with
AfterAssignment(rest) == IF rest = <<>> THEN "finish" ELSE "metadata"

\* variant: the assignments are taken and the graph is left as it was
OfferFillOk_NotRecorded(p, res) ==
    /\ calls[p].pc = "idle"
    /\ Held(res)
    /\ LET f == FillReservations(res, task, job_status, job_order)
       IN  calls' = [calls EXCEPT ![p] =
                  [IdleCall EXCEPT !.op = "offer",
                                   !.pc = AfterAssignment(f.assignments),
                                   !.reservations = res,
                                   !.assignments = f.assignments,
                                   !.free_list = f.unassigned,
                                   !.pending_tasks = f.pending_tasks,
                                   !.fill = "Ok",
                                   !.unassigned = f.unassigned,
                                   !.pending_before =
                                       Cardinality(PendingTasks(task, job_status)),
                                   !.available_before = available_task_slots]]
    /\ outstanding' = Remove(outstanding, res)
    /\ UNCHANGED <<emVars, tmVars, dispatched>>
    /\ UNCHANGED <<plan_failed, clientVars>>

\* variant: the reservations given are kept as the unassigned ones
OfferFillOk_KeepsAll(p, res) ==
    /\ calls[p].pc = "idle"
    /\ Held(res)
    /\ LET f == FillReservations(res, task, job_status, job_order)
       IN  /\ task' = f.task
           /\ calls' = [calls EXCEPT ![p] =
                  [IdleCall EXCEPT !.op = "offer",
                                   !.pc = AfterAssignment(f.assignments),
                                   !.reservations = res,
                                   !.assignments = f.assignments,
                                   !.free_list = res,
                                   !.pending_tasks = f.pending_tasks,
                                   !.fill = "Ok",
                                   !.unassigned = res,
                                   !.pending_before =
                                       Cardinality(PendingTasks(task, job_status)),
                                   !.available_before = available_task_slots]]
    /\ outstanding' = Remove(outstanding, res)
    /\ UNCHANGED <<emVars, job_status, job_order, dispatched>>
    /\ UNCHANGED <<plan_failed, clientVars>>

\* variant: the count of Pending tasks is the one taken before the pass
OfferFillOk_CountsBefore(p, res) ==
    /\ calls[p].pc = "idle"
    /\ Held(res)
    /\ LET f == FillReservations(res, task, job_status, job_order)
       IN  /\ task' = f.task
           /\ calls' = [calls EXCEPT ![p] =
                  [IdleCall EXCEPT !.op = "offer",
                                   !.pc = AfterAssignment(f.assignments),
                                   !.reservations = res,
                                   !.assignments = f.assignments,
                                   !.free_list = f.unassigned,
                                   !.pending_tasks =
                                       Cardinality(PendingTasks(task, job_status)),
                                   !.fill = "Ok",
                                   !.unassigned = f.unassigned,
                                   !.pending_before =
                                       Cardinality(PendingTasks(task, job_status)),
                                   !.available_before = available_task_slots]]
    /\ outstanding' = Remove(outstanding, res)
    /\ UNCHANGED <<emVars, job_status, job_order, dispatched>>
    /\ UNCHANGED <<plan_failed, clientVars>>

\* the call and task_manager.fill_reservations(&reservations) returning Ok
OfferFillOk(p, res) ==
    /\ calls[p].pc = "idle"
    /\ Held(res)
    /\ LET f == FillReservations(res, task, job_status, job_order)
       IN  /\ task' = f.task
           /\ calls' = [calls EXCEPT ![p] =
                  [IdleCall EXCEPT !.op = "offer",
                                   !.pc = AfterAssignment(f.assignments),
                                   !.reservations = res,
                                   !.assignments = f.assignments,
                                   !.free_list = f.unassigned,
                                   !.pending_tasks = f.pending_tasks,
                                   !.fill = "Ok",
                                   !.unassigned = f.unassigned,
                                   !.pending_before =
                                       Cardinality(PendingTasks(task, job_status)),
                                   !.available_before = available_task_slots]]
    /\ outstanding' = Remove(outstanding, res)
    /\ UNCHANGED <<emVars, job_status, job_order, dispatched>>
    /\ UNCHANGED <<plan_failed, clientVars>>

\* variant: the reservations offered are let go of when the pass fails
OfferFillErr_Drops(p, res) ==
    /\ calls[p].pc = "idle"
    /\ Held(res)
    /\ calls' = [calls EXCEPT ![p] =
           [IdleCall EXCEPT !.op = "offer", !.pc = "finish",
                            !.reservations = res,
                            !.free_list = <<>>,
                            !.pending_tasks = 0,
                            !.fill = "Err",
                            !.pending_before =
                                Cardinality(PendingTasks(task, job_status)),
                            !.available_before = available_task_slots]]
    /\ outstanding' = Remove(outstanding, res)
    /\ UNCHANGED <<emVars, tmVars, dispatched>>
    /\ UNCHANGED <<plan_failed, clientVars>>

\* the call and fill_reservations returning Err: (reservations, 0)
OfferFillErr(p, res) ==
    /\ calls[p].pc = "idle"
    /\ Held(res)
    /\ calls' = [calls EXCEPT ![p] =
           [IdleCall EXCEPT !.op = "offer", !.pc = "finish",
                            !.reservations = res,
                            !.free_list = res,
                            !.pending_tasks = 0,
                            !.fill = "Err",
                            !.pending_before =
                                Cardinality(PendingTasks(task, job_status)),
                            !.available_before = available_task_slots]]
    /\ outstanding' = Remove(outstanding, res)
    /\ UNCHANGED <<emVars, tmVars, dispatched>>
    /\ UNCHANGED <<plan_failed, clientVars>>

\* get_executor_metadata(&executor_id) returning Ok for the next assignment
OfferMetadataOk(p) ==
    /\ calls[p].op = "offer"
    /\ calls[p].pc = "metadata"
    /\ Head(calls[p].assignments)[1] \in executors
    /\ calls' = [calls EXCEPT ![p].pc = "launch"]
    /\ UNCHANGED <<emVars, tmVars, outstanding, dispatched>>
    /\ UNCHANGED <<plan_failed, clientVars>>

\* get_executor_metadata returning Err: a free reservation is pushed
OfferMetadataErr(p) ==
    /\ calls[p].op = "offer"
    /\ calls[p].pc = "metadata"
    /\ LET a == Head(calls[p].assignments)
           rest == Tail(calls[p].assignments)
       IN  /\ a[1] \notin executors
           /\ calls' = [calls EXCEPT ![p].pc = AfterAssignment(rest),
                                     ![p].assignments = rest,
                                     ![p].failed = Append(@, a),
                                     ![p].free_list = Append(@, NewFree(a[1]))]
    /\ UNCHANGED <<emVars, tmVars, outstanding, dispatched>>
    /\ UNCHANGED <<plan_failed, clientVars>>

\* variant: the launch succeeds and a free reservation is pushed all the same
OfferLaunchOk_Pushes(p) ==
    /\ calls[p].op = "offer"
    /\ calls[p].pc = "launch"
    /\ LET a == Head(calls[p].assignments)
           rest == Tail(calls[p].assignments)
       IN  /\ a[1] \in executors
           /\ dispatched' = dispatched \cup {a}
           /\ calls' = [calls EXCEPT ![p].pc = AfterAssignment(rest),
                                     ![p].assignments = rest,
                                     ![p].launched = Append(@, a),
                                     ![p].free_list = Append(@, NewFree(a[1]))]
    /\ UNCHANGED <<emVars, tmVars, outstanding>>
    /\ UNCHANGED <<plan_failed, clientVars>>

\* launch_task(&executor, task, &executor_manager) returning Ok
OfferLaunchOk(p) ==
    /\ calls[p].op = "offer"
    /\ calls[p].pc = "launch"
    /\ LET a == Head(calls[p].assignments)
           rest == Tail(calls[p].assignments)
       IN  /\ a[1] \in executors
           /\ dispatched' = dispatched \cup {a}
           /\ calls' = [calls EXCEPT ![p].pc = AfterAssignment(rest),
                                     ![p].assignments = rest,
                                     ![p].launched = Append(@, a)]
    /\ UNCHANGED <<emVars, tmVars, outstanding>>
    /\ UNCHANGED <<plan_failed, clientVars>>

\* variant: the launch fails and no reservation is pushed
OfferLaunchErr_NoPush(p) ==
    /\ calls[p].op = "offer"
    /\ calls[p].pc = "launch"
    /\ LET a == Head(calls[p].assignments)
           rest == Tail(calls[p].assignments)
       IN  /\ \/ Retries < MaxRetries
              \/ LaunchTaskFailed(task, a[1], a[2]) = task
           /\ task' = LaunchTaskFailed(task, a[1], a[2])
           /\ dispatched' = Prune(dispatched, task')
           /\ calls' = [calls EXCEPT ![p].pc = AfterAssignment(rest),
                                     ![p].assignments = rest,
                                     ![p].failed = Append(@, a)]
    /\ UNCHANGED <<emVars, job_status, job_order, outstanding>>
    /\ UNCHANGED <<plan_failed, clientVars>>

\* launch_task returning Err: a free reservation is pushed
OfferLaunchErr(p) ==
    /\ calls[p].op = "offer"
    /\ calls[p].pc = "launch"
    /\ LET a == Head(calls[p].assignments)
           rest == Tail(calls[p].assignments)
       IN  /\ \/ Retries < MaxRetries
              \/ LaunchTaskFailed(task, a[1], a[2]) = task
           /\ task' = LaunchTaskFailed(task, a[1], a[2])
           /\ dispatched' = Prune(dispatched, task')
           /\ calls' = [calls EXCEPT ![p].pc = AfterAssignment(rest),
                                     ![p].assignments = rest,
                                     ![p].failed = Append(@, a),
                                     ![p].free_list = Append(@, NewFree(a[1]))]
    /\ UNCHANGED <<emVars, job_status, job_order, outstanding>>
    /\ UNCHANGED <<plan_failed, clientVars>>

\* variant: the free list is not cancelled
OfferCancelOk_Skipped(p) ==
    /\ calls[p].op = "offer"
    /\ calls[p].pc = "finish"
    /\ calls[p].free_list # <<>>
    /\ calls' = [calls EXCEPT ![p].pc = "done", ![p].outcome = "Ok"]
    /\ UNCHANGED <<emVars, tmVars, outstanding, dispatched>>
    /\ UNCHANGED <<plan_failed, clientVars>>

\* variant: after the cancellation, slots are reserved for the pending tasks too
OfferCancelOk_ThenReserves(p) ==
    /\ calls[p].op = "offer"
    /\ calls[p].pc = "finish"
    /\ calls[p].free_list # <<>>
    /\ LET r == ReserveSlots(calls[p].pending_tasks,
                             CancelReservations(calls[p].free_list, available_task_slots,
                                                executors),
                             executors)
       IN  /\ available_task_slots' = r.available
           /\ calls' = [calls EXCEPT ![p].pc = "done",
                                     ![p].cancelled = calls[p].free_list,
                                     ![p].new_reservations = r.reservations,
                                     ![p].outcome = "Ok"]
    /\ UNCHANGED <<executors, retired, total_task_slots, tmVars, outstanding, dispatched>>
    /\ UNCHANGED <<plan_failed, clientVars>>

\* free_list not empty: cancel_reservations(free_list) returning Ok
OfferCancelOk(p) ==
    /\ calls[p].op = "offer"
    /\ calls[p].pc = "finish"
    /\ calls[p].free_list # <<>>
    /\ available_task_slots' =
           CancelReservations(calls[p].free_list, available_task_slots, executors)
    /\ calls' = [calls EXCEPT ![p].pc = "done",
                              ![p].cancelled = calls[p].free_list,
                              ![p].outcome = "Ok"]
    /\ UNCHANGED <<executors, retired, total_task_slots, tmVars, outstanding, dispatched>>
    /\ UNCHANGED <<plan_failed, clientVars>>

\* cancel_reservations(free_list) returning Err: `?` returns the error
OfferCancelErr(p) ==
    /\ calls[p].op = "offer"
    /\ calls[p].pc = "finish"
    /\ calls[p].free_list # <<>>
    /\ calls' = [calls EXCEPT ![p].pc = "done", ![p].outcome = "Err"]
    /\ UNCHANGED <<emVars, tmVars, outstanding, dispatched>>
    /\ UNCHANGED <<plan_failed, clientVars>>

\* variant: as many slots are reserved as reservations were offered
OfferReserveOk_ByOffered(p) ==
    /\ calls[p].op = "offer"
    /\ calls[p].pc = "finish"
    /\ calls[p].free_list = <<>>
    /\ calls[p].pending_tasks > 0
    /\ LET r == ReserveSlots(Len(calls[p].reservations), available_task_slots, executors)
       IN  /\ available_task_slots' = r.available
           /\ calls' = [calls EXCEPT ![p].pc = "done",
                                     ![p].new_reservations = r.reservations,
                                     ![p].outcome = "Ok"]
    /\ UNCHANGED <<executors, retired, total_task_slots, tmVars, outstanding, dispatched>>
    /\ UNCHANGED <<plan_failed, clientVars>>

\* free_list empty and pending_tasks > 0: reserve_slots(pending_tasks) returning Ok
OfferReserveOk(p) ==
    /\ calls[p].op = "offer"
    /\ calls[p].pc = "finish"
    /\ calls[p].free_list = <<>>
    /\ calls[p].pending_tasks > 0
    /\ LET r == ReserveSlots(calls[p].pending_tasks, available_task_slots, executors)
       IN  /\ available_task_slots' = r.available
           /\ calls' = [calls EXCEPT ![p].pc = "done",
                                     ![p].new_reservations = r.reservations,
                                     ![p].outcome = "Ok"]
    /\ UNCHANGED <<executors, retired, total_task_slots, tmVars, outstanding, dispatched>>
    /\ UNCHANGED <<plan_failed, clientVars>>

\* reserve_slots(pending_tasks) returning Err: `?` returns the error
OfferReserveErr(p) ==
    /\ calls[p].op = "offer"
    /\ calls[p].pc = "finish"
    /\ calls[p].free_list = <<>>
    /\ calls[p].pending_tasks > 0
    /\ calls' = [calls EXCEPT ![p].pc = "done", ![p].outcome = "Err"]
    /\ UNCHANGED <<emVars, tmVars, outstanding, dispatched>>
    /\ UNCHANGED <<plan_failed, clientVars>>

\* free_list empty and no pending task: Ok(vec![])
OfferNothingLeft(p) ==
    /\ calls[p].op = "offer"
    /\ calls[p].pc = "finish"
    /\ calls[p].free_list = <<>>
    /\ calls[p].pending_tasks = 0
    /\ calls' = [calls EXCEPT ![p].pc = "done", ![p].outcome = "Ok"]
    /\ UNCHANGED <<emVars, tmVars, outstanding, dispatched>>
    /\ UNCHANGED <<plan_failed, clientVars>>

\* the future of an invocation is dropped at one of its await points
OfferDropped(p) ==
    /\ calls[p].op = "offer"
    /\ calls[p].pc \in {"metadata", "launch", "finish"}
    /\ calls' = [calls EXCEPT ![p].pc = "done", ![p].outcome = "Dropped"]
    /\ UNCHANGED <<emVars, tmVars, outstanding, dispatched>>
    /\ UNCHANGED <<plan_failed, clientVars>>

\* the caller takes the result: the reservations returned are now in its hands
Return(p) ==
    /\ calls[p].pc = "done"
    /\ outstanding' = Add(outstanding, calls[p].new_reservations)
    /\ calls' = [calls EXCEPT ![p] = IdleCall]
    /\ UNCHANGED <<emVars, tmVars, dispatched>>
    /\ UNCHANGED <<plan_failed, clientVars>>

\* ---- with_lock(lock, op) ----

\* the call: the lock was acquired by the caller and moves into with_lock; op is
\* awaited
WithLockCall(p) ==
    /\ calls[p].pc = "idle"
    /\ calls' = [calls EXCEPT ![p] =
           [IdleCall EXCEPT !.op = "with_lock", !.pc = "op", !.lock = "held"]]
    /\ UNCHANGED <<emVars, tmVars, outstanding, dispatched>>
    /\ UNCHANGED <<plan_failed, clientVars>>

\* op.await yields its output, Ok or Err alike: it is kept in result
WithLockOpEnds(p, outcome) ==
    /\ calls[p].op = "with_lock"
    /\ calls[p].pc = "op"
    /\ calls' = [calls EXCEPT ![p].pc = "unlock", ![p].outcome = outcome]
    /\ UNCHANGED <<emVars, tmVars, outstanding, dispatched>>
    /\ UNCHANGED <<plan_failed, clientVars>>

\* lock.unlock().await, then result is returned
WithLockUnlock(p) ==
    /\ calls[p].op = "with_lock"
    /\ calls[p].pc = "unlock"
    /\ calls' = [calls EXCEPT ![p].pc = "done", ![p].lock = "released"]
    /\ UNCHANGED <<emVars, tmVars, outstanding, dispatched>>
    /\ UNCHANGED <<plan_failed, clientVars>>

\* op panics, or the future is dropped at one of its two awaits: unlock() is not
\* called or not completed, and the Box<dyn Lock> is dropped; whether dropping it
\* releases the mutex is up to the implementation of Lock
WithLockUnwound(p, outcome, released) ==
    /\ calls[p].op = "with_lock"
    /\ calls[p].pc \in (IF outcome = "Panic" THEN {"op"} ELSE {"op", "unlock"})
    /\ calls' = [calls EXCEPT ![p].pc = "done", ![p].outcome = outcome,
                              ![p].lock = IF released THEN "released" ELSE "held"]
    /\ UNCHANGED <<emVars, tmVars, outstanding, dispatched>>
    /\ UNCHANGED <<plan_failed, clientVars>>

\* ---- SchedulerState::update_task_statuses (cfg(not(test))) ----

Statuses == [task : Tasks, kind : StatusKinds]

\* statuses an executor reports about tasks it was given, each task once
Reported(e, statuses) ==
    /\ \A i \in 1..Len(statuses) : <<e, statuses[i].task>> \in dispatched
    /\ \A i, k \in 1..Len(statuses) : statuses[i].task = statuses[k].task => i = k

\* reservations and slots an executor has beyond its task_slots
Excess(e) ==
    available_task_slots[e] + outstanding[e] + Cardinality(RunningOn(task, e))
        - total_task_slots[e]

\* statuses that end no task Running on e
Spurious(e, statuses) ==
    {i \in 1..Len(statuses) :
        ~(Terminal(statuses[i]) /\ statuses[i].task \in RunningOn(task, e))}

\* the counters of the model stay within its bounds
WithinBounds(e, statuses) ==
    /\ Excess(e) + Cardinality(Spurious(e, statuses)) <= MaxExcess
    /\ Retries + Cardinality({i \in 1..Len(statuses) :
                                  statuses[i].kind = "FailedRetriable"}) <= MaxRetries

\* cancel_reservations called twice, one call after the other, with a reservation
\* the caller holds
CancelReservationsTwice(e) ==
    /\ Held(<<NewFree(e)>>)
    /\ Excess(e) < MaxExcess
    /\ available_task_slots' =
           CancelReservations(<<NewFree(e)>>,
               CancelReservations(<<NewFree(e)>>, available_task_slots, executors),
               executors)
    /\ outstanding' = Remove(outstanding, <<NewFree(e)>>)
    /\ UNCHANGED <<executors, retired, total_task_slots, tmVars, dispatched, calls>>
    /\ UNCHANGED <<plan_failed, clientVars>>

FreeReservations(e, n) == [i \in 1..n |-> NewFree(e)]

\* variant: the statuses reach the task manager although the executor is unknown
UpdateMetadataErr_Applies(p, e, statuses) ==
    /\ calls[p].pc = "idle"
    /\ WithinBounds(e, statuses)
    /\ e \notin executors
    /\ LET G == ApplyStatuses([task |-> task, job_status |-> job_status, events |-> <<>>],
                              statuses, e)
       IN  /\ task' = G.task
           /\ job_status' = G.job_status
           /\ calls' = [calls EXCEPT ![p] =
                  [IdleCall EXCEPT !.op = "update", !.pc = "done",
                                   !.executor_id = e,
                                   !.events = G.events,
                                   !.outcome = "Err"]]
    /\ UNCHANGED <<emVars, job_order, outstanding, dispatched>>
    /\ UNCHANGED <<plan_failed, clientVars>>

\* get_executor_metadata(executor_id) returning Err: `?` returns the error
UpdateMetadataErr(p, e, statuses) ==
    /\ calls[p].pc = "idle"
    /\ WithinBounds(e, statuses)
    /\ e \notin executors
    /\ calls' = [calls EXCEPT ![p] =
           [IdleCall EXCEPT !.op = "update", !.pc = "done",
                            !.executor_id = e,
                            !.outcome = "Err"]]
    /\ UNCHANGED <<emVars, tmVars, outstanding, dispatched>>
    /\ UNCHANGED <<plan_failed, clientVars>>

\* task_manager.update_task_statuses(&executor, tasks_status) returning Err: `?`
\* returns the error and the reservations built before it are dropped
UpdateTaskManagerErr(p, e, statuses) ==
    /\ calls[p].pc = "idle"
    /\ WithinBounds(e, statuses)
    /\ e \in executors
    /\ calls' = [calls EXCEPT ![p] =
           [IdleCall EXCEPT !.op = "update", !.pc = "done",
                            !.executor_id = e,
                            !.reservations = FreeReservations(e, Len(statuses)),
                            !.outcome = "Err"]]
    /\ UNCHANGED <<emVars, tmVars, outstanding, dispatched>>
    /\ UNCHANGED <<plan_failed, clientVars>>

\* every call returning Ok: Ok((events, reservations)), one reservation for each
\* of the tasks_status.len() statuses
UpdateTaskStatuses(p, e, statuses) ==
    /\ calls[p].pc = "idle"
    /\ WithinBounds(e, statuses)
    /\ e \in executors
    /\ LET G == ApplyStatuses([task |-> task, job_status |-> job_status, events |-> <<>>],
                              statuses, e)
           reported == {<<e, statuses[i].task>> :
                           i \in {k \in 1..Len(statuses) : Terminal(statuses[k])}}
       IN  /\ task' = G.task
           /\ job_status' = G.job_status
           /\ dispatched' = Prune(dispatched \ reported, G.task)
           /\ calls' = [calls EXCEPT ![p] =
                  [IdleCall EXCEPT !.op = "update", !.pc = "done",
                                   !.executor_id = e,
                                   !.reservations = FreeReservations(e, Len(statuses)),
                                   !.new_reservations = FreeReservations(e, Len(statuses)),
                                   !.events = G.events,
                                   !.outcome = "Ok"]]
    /\ UNCHANGED <<emVars, job_order, outstanding>>
    /\ UNCHANGED <<plan_failed, clientVars>>

\* ---- SchedulerState::update_task_statuses (cfg(test)) ----

\* every call returning Ok: the free_list, one reservation for each status, is
\* cancelled and Ok((events, vec![])) is returned
UpdateTaskStatusesTest(p, e, statuses) ==
    /\ calls[p].pc = "idle"
    /\ WithinBounds(e, statuses)
    /\ e \in executors
    /\ LET G == ApplyStatuses([task |-> task, job_status |-> job_status, events |-> <<>>],
                              statuses, e)
           reported == {<<e, statuses[i].task>> :
                           i \in {k \in 1..Len(statuses) : Terminal(statuses[k])}}
           free_list == FreeReservations(e, Len(statuses))
       IN  /\ task' = G.task
           /\ job_status' = G.job_status
           /\ dispatched' = Prune(dispatched \ reported, G.task)
           /\ available_task_slots' =
                  CancelReservations(free_list, available_task_slots, executors)
           /\ calls' = [calls EXCEPT ![p] =
                  [IdleCall EXCEPT !.op = "update", !.pc = "done",
                                   !.executor_id = e,
                                   !.reservations = free_list,
                                   !.cancelled = free_list,
                                   !.events = G.events,
                                   !.outcome = "Ok"]]
    /\ UNCHANGED <<executors, retired, total_task_slots, job_order, outstanding>>
    /\ UNCHANGED <<plan_failed, clientVars>>

\* cancel_reservations(free_list) returning Err, after the task manager has
\* applied the statuses: `?` returns the error, and the events with it
UpdateTaskStatusesTestCancelErr(p, e, statuses) ==
    /\ calls[p].pc = "idle"
    /\ WithinBounds(e, statuses)
    /\ e \in executors
    /\ LET G == ApplyStatuses([task |-> task, job_status |-> job_status, events |-> <<>>],
                              statuses, e)
           reported == {<<e, statuses[i].task>> :
                           i \in {k \in 1..Len(statuses) : Terminal(statuses[k])}}
       IN  /\ task' = G.task
           /\ job_status' = G.job_status
           /\ dispatched' = Prune(dispatched \ reported, G.task)
           /\ calls' = [calls EXCEPT ![p] =
                  [IdleCall EXCEPT !.op = "update", !.pc = "done",
                                   !.executor_id = e,
                                   !.reservations = FreeReservations(e, Len(statuses)),
                                   !.outcome = "Err"]]
    /\ UNCHANGED <<emVars, job_order, outstanding>>
    /\ UNCHANGED <<plan_failed, clientVars>>

\* what the cfg(not(test)) path does with the same statuses from the same state:
\* the graph and the events of the task manager, and the reservations returned
NonTestResult(e, statuses) ==
    LET G == ApplyStatuses([task |-> task, job_status |-> job_status, events |-> <<>>],
                           statuses, e)
    IN  [task |-> G.task, job_status |-> G.job_status, events |-> G.events,
         reservations |-> FreeReservations(e, Len(statuses))]

\* ---- BallistaContext::sql ----

\* the tables of the context's state registered with the shared SessionContext,
\* each unless a table of its name is registered there already
Synced(T, C) == [n \in TableNames |-> IF C[n] = NoTable THEN T[n] ELSE C[n]]

\* sql(CREATE EXTERNAL TABLE [IF NOT EXISTS] n ... LOCATION prov) up to the match
\* on (if_not_exists, table_exists): when the table exists the call ends here,
\* with the DataFrame or with the 'already exists' error
SqlCreateExternalTable(p, n, prov, if_not_exists) ==
    /\ calls[p].pc = "idle"
    /\ LET ctx == Synced(tables, context_tables)
           table_exists == ctx[n] # NoTable
       IN  /\ context_tables' = ctx
           /\ calls' = [calls EXCEPT ![p] =
                  [IdleCall EXCEPT !.op = "sql",
                                   !.pc = IF table_exists THEN "done" ELSE "register",
                                   !.name = n,
                                   !.provider = prov,
                                   !.if_not_exists = if_not_exists,
                                   !.table_exists = table_exists,
                                   !.outcome = IF ~table_exists THEN "none"
                                               ELSE IF if_not_exists THEN "Ok"
                                               ELSE "Err"]]
    /\ UNCHANGED <<emVars, tmVars, outstanding, dispatched, plan_failed, tables>>

\* the table is read or created and register_table inserts it under its name
SqlRegisterOk(p) ==
    /\ calls[p].op = "sql"
    /\ calls[p].pc = "register"
    /\ tables' = [tables EXCEPT ![calls[p].name] = calls[p].provider]
    /\ calls' = [calls EXCEPT ![p].pc = "done", ![p].outcome = "Ok"]
    /\ UNCHANGED <<emVars, tmVars, outstanding, dispatched, plan_failed, context_tables>>

\* reading or creating the table fails: `?` returns the error
SqlRegisterErr(p) ==
    /\ calls[p].op = "sql"
    /\ calls[p].pc = "register"
    /\ calls' = [calls EXCEPT ![p].pc = "done", ![p].outcome = "Err"]
    /\ UNCHANGED <<emVars, tmVars, outstanding, dispatched, plan_failed, clientVars>>

\* sql of any other statement: the tables are registered with the SessionContext
\* and the statement is run there
SqlQuery(p) ==
    /\ calls[p].pc = "idle"
    /\ context_tables' = Synced(tables, context_tables)
    /\ calls' = [calls EXCEPT ![p] =
           [IdleCall EXCEPT !.op = "sql", !.pc = "done", !.outcome = "Ok"]]
    /\ UNCHANGED <<emVars, tmVars, outstanding, dispatched, plan_failed, tables>>

\* ------------------------------------------------------------------------
\* Specifications
\* ------------------------------------------------------------------------
Offers == SeqsUpTo(Executors, MaxOffer)
StatusLists == SeqsUpTo(Statuses, MaxStatuses) \ {<<>>}

\* the steps of an offer_reservation invocation after its call
OfferStep(p) ==
    \/ OfferMetadataOk(p)
    \/ OfferMetadataErr(p)
    \/ OfferLaunchOk(p)
    \/ OfferLaunchErr(p)
    \/ OfferCancelOk(p)
    \/ OfferCancelErr(p)
    \/ OfferReserveOk(p)
    \/ OfferReserveErr(p)
    \/ OfferNothingLeft(p)
    \/ OfferDropped(p)

\* One handler invocation at a time.  Executors report the tasks they were given,
\* and an executor that expired is gone: it reports nothing more.  The jobs
\* submitted are those of the first plan.
Next ==
    \/ \E e \in Executors, b \in BOOLEAN : Quiet /\ RegisterExecutor(e, b)
    \/ \E n \in 1..MaxOffer : Quiet /\ ReserveSlotsCall(n)
    \/ \E res \in Offers : Quiet /\ CancelReservationsCall(res)
    \/ \E e \in Executors : Quiet /\ Expire(e)
    \/ \E j \in {"j1"}, b \in BOOLEAN : Quiet /\ SubmitJob(j, b)
    \/ \E res \in Offers : Quiet /\ OfferFillOk(1, res)
    \/ \E res \in Offers : Quiet /\ OfferFillErr(1, res)
    \/ OfferStep(1)
    \/ \E e \in Executors, sts \in StatusLists :
           Quiet /\ Reported(e, sts) /\ UpdateTaskManagerErr(1, e, sts)
    \/ \E e \in Executors, sts \in StatusLists :
           Quiet /\ Reported(e, sts) /\ UpdateTaskStatuses(1, e, sts)
    \/ Return(1)

Spec == Init /\ [][Next]_vars

\* One handler invocation at a time, every call to a manager succeeding as long as
\* the executor is known, no executor expiring; statuses of any kind about any
\* task, from any executor.
NextAnyStatus ==
    \/ \E e \in Executors, b \in BOOLEAN : Quiet /\ RegisterExecutor(e, b)
    \/ \E n \in 1..MaxOffer : Quiet /\ ReserveSlotsCall(n)
    \/ \E res \in Offers : Quiet /\ CancelReservationsCall(res)
    \/ \E j \in {"j1"} : Quiet /\ SubmitJob(j, TRUE)
    \/ \E res \in Offers : Quiet /\ OfferFillOk(1, res)
    \/ OfferMetadataOk(1)
    \/ OfferLaunchOk(1)
    \/ OfferLaunchErr(1)
    \/ OfferCancelOk(1)
    \/ OfferReserveOk(1)
    \/ OfferNothingLeft(1)
    \/ \E e \in Executors, sts \in StatusLists : Quiet /\ UpdateMetadataErr(1, e, sts)
    \/ \E e \in Executors, sts \in StatusLists : Quiet /\ UpdateTaskStatuses(1, e, sts)
    \/ Return(1)

SpecAnyStatus == Init /\ [][NextAnyStatus]_vars

\* Handler invocations interleaved at their await points, every call to a manager
\* succeeding as long as the executor is known.  Executors register with all their
\* slots reserved, are offered one reservation at a time, and report the end of
\* the tasks they were given.  The jobs submitted are those of the second plan.
NextConcurrent ==
    \/ \E e \in Executors : RegisterExecutor(e, TRUE)
    \/ \E e \in Executors : Expire(e)
    \/ \E j \in {"j2"} : SubmitJob(j, TRUE)
    \/ \E p \in Procs, res \in SeqsUpTo(Executors, 1) : OfferFillOk(p, res)
    \/ \E p \in Procs : OfferMetadataOk(p)
    \/ \E p \in Procs : OfferMetadataErr(p)
    \/ \E p \in Procs : OfferLaunchOk(p)
    \/ \E p \in Procs : OfferLaunchErr(p)
    \/ \E p \in Procs : OfferCancelOk(p)
    \/ \E p \in Procs : OfferReserveOk(p)
    \/ \E p \in Procs : OfferNothingLeft(p)
    \/ \E p \in Procs, e \in Executors, sts \in StatusLists :
           Reported(e, sts) /\ Terminal(sts[1]) /\ UpdateTaskStatuses(p, e, sts)
    \/ \E p \in Procs : Return(p)

SpecConcurrent == Init /\ [][NextConcurrent]_vars

\* The operations of the ExecutorManager called one after the other, jobs being
\* submitted and no reservation offered.
NextManager ==
    \/ \E j \in Jobs, b \in BOOLEAN : SubmitJob(j, b)
    \/ \E e \in Executors, b \in BOOLEAN : RegisterExecutor(e, b)
    \/ \E n \in 1..MaxOffer : ReserveSlotsCall(n)
    \/ \E res \in Offers : CancelReservationsCall(res)
    \/ \E e \in Executors : CancelReservationsTwice(e)
    \/ \E e \in Executors : Expire(e)

SpecManager == Init /\ [][NextManager]_vars

\* The attempts of a task, without the bound of the model on retries: both jobs
\* are submitted, each executor is registered with its slots reserved; a
\* reservation is filled with the next Pending task and the task fails
\* (retriable) or completes.
InitRetry ==
    /\ executors = Executors
    /\ retired = {}
    /\ total_task_slots = TaskSlots
    /\ available_task_slots = NoSlots
    /\ job_status = [j \in Jobs |-> IF JobTasks(j) # {} THEN "Running" ELSE "None"]
    /\ job_order = <<"j1", "j2">>
    /\ task = [t \in Tasks |-> InitialTask(t)]
    /\ outstanding = TaskSlots
    /\ dispatched = {}
    /\ calls = [p \in Procs |-> IdleCall]
    /\ plan_failed = {}
    /\ tables = [n \in TableNames |-> NoTable]
    /\ context_tables = [n \in TableNames |-> NoTable]

\* fill_reservations and launch_task for one reservation of e
RetryBind(e) ==
    /\ PendingTasks(task, job_status) # {}
    /\ Held(<<NewFree(e)>>)
    /\ LET f == FillReservations(<<NewFree(e)>>, task, job_status, job_order)
       IN  /\ task' = f.task
           /\ dispatched' = dispatched \cup {f.assignments[1]}
    /\ outstanding' = Remove(outstanding, <<NewFree(e)>>)
    /\ UNCHANGED <<emVars, job_status, job_order, calls>>
    /\ UNCHANGED <<plan_failed, clientVars>>

\* TaskManager::update_task_statuses for one status of kind about t, reported by
\* the executor running t; the reservation of the status goes to the caller
RetryStatus(t, kind) ==
    /\ task[t].state = "Running"
    /\ <<task[t].executor, t>> \in dispatched
    /\ LET e == task[t].executor
           G == ApplyStatus([task |-> task, job_status |-> job_status, events |-> <<>>],
                            [task |-> t, kind |-> kind], e)
       IN  /\ task' = G.task
           /\ job_status' = G.job_status
           /\ dispatched' = Prune(dispatched \ {<<e, t>>}, G.task)
           /\ outstanding' = Add(outstanding, <<NewFree(e)>>)
    /\ UNCHANGED <<emVars, job_order, calls>>
    /\ UNCHANGED <<plan_failed, clientVars>>

NextRetry ==
    \/ \E e \in Executors : RetryBind(e)
    \/ \E t \in Tasks : RetryStatus(t, "FailedRetriable")
    \/ \E t \in Tasks : RetryStatus(t, "Completed")

SpecRetry == InitRetry /\ [][NextRetry]_vars

\* Operations run under with_lock by two callers, each with a lock of its own,
\* while jobs are submitted.
NextLock ==
    \/ \E j \in Jobs : SubmitJob(j, TRUE)
    \/ \E p \in Procs : WithLockCall(p)
    \/ \E p \in Procs, o \in {"Ok", "Err"} : WithLockOpEnds(p, o)
    \/ \E p \in Procs : WithLockUnlock(p)
    \/ \E p \in Procs, o \in {"Panic", "Dropped"}, b \in BOOLEAN : WithLockUnwound(p, o, b)
    \/ \E p \in Procs : Return(p)

SpecLock == Init /\ [][NextLock]_vars

\* Concurrent offer_reservation calls of up to MaxOffer reservations each, with
\* every backend call succeeding and no status reported.
NextFill ==
    \/ \E e \in Executors : RegisterExecutor(e, TRUE)
    \/ \E j \in {"j1", "j2"} : SubmitJob(j, TRUE)
    \/ \E p \in Procs, res \in SeqsUpTo(Executors, MaxOffer) : OfferFillOk(p, res)
    \/ \E p \in Procs : OfferMetadataOk(p)
    \/ \E p \in Procs : OfferLaunchOk(p)
    \/ \E p \in Procs : OfferCancelOk(p)
    \/ \E p \in Procs : OfferReserveOk(p)
    \/ \E p \in Procs : OfferNothingLeft(p)
    \/ \E p \in Procs : Return(p)

SpecFill == Init /\ [][NextFill]_vars

\* One handler invocation at a time, the statuses going through the cfg(test)
\* path of update_task_statuses, whose cancellation may fail; every other call
\* to a manager succeeds.
NextTestPath ==
    \/ \E e \in Executors, b \in BOOLEAN : Quiet /\ RegisterExecutor(e, b)
    \/ \E j \in {"j1"} : Quiet /\ SubmitJob(j, TRUE)
    \/ \E res \in Offers : Quiet /\ OfferFillOk(1, res)
    \/ OfferMetadataOk(1)
    \/ OfferLaunchOk(1)
    \/ OfferCancelOk(1)
    \/ OfferReserveOk(1)
    \/ OfferNothingLeft(1)
    \/ \E e \in Executors, sts \in StatusLists :
           Quiet /\ Reported(e, sts) /\ UpdateTaskStatusesTest(1, e, sts)
    \/ \E e \in Executors, sts \in StatusLists :
           Quiet /\ Reported(e, sts) /\ UpdateTaskStatusesTestCancelErr(1, e, sts)
    \/ Return(1)

SpecTestPath == Init /\ [][NextTestPath]_vars

\* Handler invocations interleaved at their await points, with reserve_slots and
\* cancel_reservations called beside them; every call to a manager succeeds, no
\* executor expires, executors register with all their slots reserved and report
\* the tasks they were given as Running or as Completed.
NextInterleaved ==
    \/ \E e \in Executors : RegisterExecutor(e, TRUE)
    \/ ReserveSlotsCall(1)
    \/ \E res \in SeqsUpTo(Executors, 1) : CancelReservationsCall(res)
    \/ \E j \in {"j2"} : SubmitJob(j, TRUE)
    \/ \E p \in Procs, res \in SeqsUpTo(Executors, 1) : OfferFillOk(p, res)
    \/ \E p \in Procs : OfferMetadataOk(p)
    \/ \E p \in Procs : OfferLaunchOk(p)
    \/ \E p \in Procs : OfferCancelOk(p)
    \/ \E p \in Procs : OfferReserveOk(p)
    \/ \E p \in Procs : OfferNothingLeft(p)
    \/ \E p \in Procs, e \in Executors, sts \in StatusLists :
           /\ Reported(e, sts) /\ sts[1].kind \in {"Running", "Completed"}
           /\ UpdateTaskStatuses(p, e, sts)
    \/ \E p \in Procs : Return(p)

SpecInterleaved == Init /\ [][NextInterleaved]_vars

\* Calls of BallistaContext::sql on one context, interleaved at their await
\* points.
NextClient ==
    \/ \E p \in Procs, n \in TableNames, prov \in Providers, b \in BOOLEAN :
           SqlCreateExternalTable(p, n, prov, b)
    \/ \E p \in Procs : SqlRegisterOk(p)
    \/ \E p \in Procs : SqlRegisterErr(p)
    \/ \E p \in Procs : SqlQuery(p)
    \/ \E p \in Procs : Return(p)

SpecClient == Init /\ [][NextClient]_vars

\* The same calls, one after the other.
NextClientSequential ==
    \/ \E n \in TableNames, prov \in Providers, b \in BOOLEAN :
           Quiet /\ SqlCreateExternalTable(1, n, prov, b)
    \/ SqlRegisterOk(1)
    \/ SqlRegisterErr(1)
    \/ Quiet /\ SqlQuery(1)
    \/ Return(1)

SpecClientSequential == Init /\ [][NextClientSequential]_vars

\* ------------------------------------------------------------------------
\* Properties
\* ------------------------------------------------------------------------
RECURSIVE CountExecutor(_, _)
CountExecutor(pairs, e) ==
    IF pairs = <<>> THEN 0
    ELSE (IF Head(pairs)[1] = e THEN 1 ELSE 0) + CountExecutor(Tail(pairs), e)

TasksOf(pairs) == {pairs[i][2] : i \in 1..Len(pairs)}

OfferEnded(p) == calls[p].op = "offer" /\ calls[p].pc = "done"
OfferReturned(p) == OfferEnded(p) /\ calls[p].outcome \in {"Ok", "Err"}

\* every reservation given to the invocation was launched with a task or cancelled
Accounted(p) ==
    \A e \in Executors :
        Count(calls[p].reservations, e) =
            CountExecutor(calls[p].launched, e) + Count(calls[p].cancelled, e)

\* the free reservations an invocation holds when an error ends it
HeldFree(p) == IF calls[p].op = "offer" THEN calls[p].free_list ELSE calls[p].reservations

\* reservations of registered executors in a list
Live(res) == SumOver([e \in Executors |-> Count(res, e)], executors)

\* C3: every offer_reservation call that returns leaves each reservation it was
\* given either bound to a task launched on its executor or cancelled (none of
\* them is handed back: the reservations returned are newly reserved ones).
C3_EveryReservationSettled ==
    \A p \in Procs : OfferReturned(p) => Accounted(p)

\* C4: an offer_reservation invocation dropped at an await point leaves each
\* reservation it was given launched with its task or back in the pool.
C4_DroppedOfferLeaksNothing ==
    \A p \in Procs :
        (OfferEnded(p) /\ calls[p].outcome = "Dropped") => Accounted(p)

\* C5: when a step of a handler returns an error, the free reservations the
\* handler holds at that point have been given back to their executors.
C5_ErrorsReclaimReservations ==
    \A p \in Procs :
        (calls[p].pc = "done" /\ calls[p].outcome = "Err") =>
            calls[p].cancelled = HeldFree(p)

\* C6: when offer_reservation returns, every task whose assignment was not
\* launched (launch_task failed, or the executor's metadata was missing) is
\* Pending again with no executor recorded.
C6_NoDanglingRunningTask ==
    \A p \in Procs :
        OfferReturned(p) =>
            \A i \in 1..Len(calls[p].failed) :
                LET t == calls[p].failed[i][2]
                IN  task[t].state = "Pending" /\ task[t].executor = NoExecutor

\* C7: in an offer_reservation call whose cancel_reservations succeeds, each
\* assignment that was not launched adds exactly one free reservation of its
\* executor to the free list, the whole free list is cancelled, and a registered
\* executor gets back every slot of its reservations that was not launched.
C7_FailedLaunchReclaimsSlot ==
    \A p \in Procs :
        (OfferEnded(p) /\ calls[p].outcome = "Ok" /\ calls[p].failed # <<>>) =>
            /\ calls[p].cancelled = calls[p].free_list
            /\ \A e \in Executors :
                   /\ Count(calls[p].free_list, e) =
                          Count(calls[p].unassigned, e) + CountExecutor(calls[p].failed, e)
                   /\ e \in executors =>
                          available_task_slots[e] =
                              calls[p].available_before[e]
                                  + Count(calls[p].reservations, e)
                                  - CountExecutor(calls[p].launched, e)

C7_Witness ==
    \E p \in Procs :
        /\ OfferEnded(p) /\ calls[p].outcome = "Ok"
        /\ \E i \in 1..Len(calls[p].failed) : calls[p].failed[i][1] \in executors
        /\ calls[p].launched # <<>>

\* C8: an offer_reservation call made when no task is Pending, and whose
\* cancel_reservations succeeds, returns an empty list and cancels every
\* reservation it was given: the slots of registered executors are available
\* again, so that reserve_slots for as many slots returns that many.
C8_UnmatchedReservationsFreed ==
    \A p \in Procs :
        (OfferEnded(p) /\ calls[p].outcome = "Ok" /\ calls[p].pending_before = 0) =>
            /\ calls[p].new_reservations = <<>>
            /\ calls[p].cancelled = calls[p].reservations
            /\ \A e \in executors :
                   available_task_slots[e] =
                       calls[p].available_before[e] + Count(calls[p].reservations, e)
            /\ LET n == Live(calls[p].reservations)
               IN  Len(ReserveSlots(n, available_task_slots, executors).reservations) = n

C8_Witness ==
    \E p \in Procs :
        /\ OfferEnded(p) /\ calls[p].outcome = "Ok" /\ calls[p].pending_before = 0
        /\ calls[p].fill = "Ok"
        /\ Len(calls[p].reservations) = MaxOffer
        /\ Live(calls[p].reservations) = MaxOffer
        /\ \A e \in executors : calls[p].available_before[e] = 0

\* C9: an offer_reservation call given no more reservations than there are
\* Pending tasks, whose fill and launches all succeed, binds the i-th
\* reservation to a task of its own, Running on that reservation's executor, and
\* cancels nothing; when the reservations are as many as the Pending tasks it
\* returns an empty list and no slot has become available.
C9_EveryReservationBound ==
    \A p \in Procs :
        (/\ OfferReturned(p)
         /\ calls[p].fill = "Ok"
         /\ calls[p].failed = <<>>
         /\ Len(calls[p].reservations) <= calls[p].pending_before) =>
            /\ Len(calls[p].launched) = Len(calls[p].reservations)
            /\ Cardinality(TasksOf(calls[p].launched)) = Len(calls[p].reservations)
            /\ \A i \in 1..Len(calls[p].launched) :
                   LET a == calls[p].launched[i]
                   IN  /\ a[1] = calls[p].reservations[i]
                       /\ task[a[2]].state = "Running"
                       /\ task[a[2]].executor = a[1]
            /\ calls[p].cancelled = <<>>
            /\ Len(calls[p].reservations) = calls[p].pending_before =>
                   /\ calls[p].outcome = "Ok"
                   /\ calls[p].new_reservations = <<>>
                   /\ available_task_slots = calls[p].available_before

C9_Witness ==
    \E p \in Procs :
        /\ OfferReturned(p)
        /\ calls[p].fill = "Ok"
        /\ calls[p].failed = <<>>
        /\ Len(calls[p].reservations) = MaxOffer
        /\ calls[p].pending_before = MaxOffer
        /\ \E e \in executors :
               /\ Count(calls[p].reservations, e) = total_task_slots[e]
               /\ ReserveSlots(total_task_slots[e], available_task_slots, {e}).reservations = <<>>

\* C10: an offer_reservation call whose reservations were all bound and launched
\* and that leaves p > 0 tasks Pending returns, when reserve_slots succeeds,
\* min(p, available slots of registered executors) new reservations, each taken
\* out of its executor's available slots.
C10_PendingTasksReserveSlots ==
    \A p \in Procs :
        (/\ OfferEnded(p) /\ calls[p].outcome = "Ok"
         /\ calls[p].fill = "Ok"
         /\ Len(calls[p].launched) = Len(calls[p].reservations)
         /\ calls[p].pending_tasks > 0) =>
            /\ Len(calls[p].new_reservations) =
                   Min(calls[p].pending_tasks,
                       TotalAvailable(calls[p].available_before, executors))
            /\ \A e \in Executors :
                   /\ Count(calls[p].new_reservations, e) > 0 => e \in executors
                   /\ available_task_slots[e] =
                          calls[p].available_before[e] - Count(calls[p].new_reservations, e)

C10_Witness ==
    \E p \in Procs :
        /\ OfferEnded(p) /\ calls[p].outcome = "Ok"
        /\ calls[p].fill = "Ok"
        /\ Len(calls[p].launched) = 1
        /\ Len(calls[p].reservations) = 1
        /\ Len(calls[p].new_reservations) = calls[p].pending_tasks
        /\ ReserveSlots(MaxSlots, available_task_slots, executors).reservations = <<>>

\* C1: whenever no handler is running, every registered executor has
\* available_task_slots + reservations outstanding for it + tasks Running on it
\* equal to its task_slots.
C1_ReservationConservation ==
    Quiet =>
        \A e \in executors :
            available_task_slots[e] + outstanding[e] + Cardinality(RunningOn(task, e))
                = total_task_slots[e]

C11_EmptyOfferChangesNothing ==
    \A p \in Procs :
        (OfferEnded(p) /\ calls[p].outcome = "Ok" /\ calls[p].reservations = <<>>) =>
            /\ calls[p].new_reservations = <<>>
            /\ calls[p].launched = <<>>
            /\ available_task_slots = calls[p].available_before

\* the statuses of a list that end a task Running on executor e
Terminating(e, statuses) ==
    {i \in 1..Len(statuses) :
        /\ Terminal(statuses[i])
        /\ statuses[i].task \in RunningOn(task, e)
        /\ job_status[JobOf(statuses[i].task)] = "Running"
        /\ \A k \in 1..(i - 1) : statuses[k].task # statuses[i].task}

\* C12: an update_task_statuses call returns one free reservation of its executor
\* for each status that ends a task Running on it, and none for the others.
C12_ReservationPerTerminatedTask ==
    [][\A p \in Procs, e \in Executors, sts \in StatusLists :
           UpdateTaskStatuses(p, e, sts) =>
               calls'[p].new_reservations =
                   FreeReservations(e, Cardinality(Terminating(e, sts)))]_vars

\* C13: a Completed status about a task that is already Completed changes no task
\* and no job, emits no event and returns no reservation.
C13_CompletedTwiceIsNoOp ==
    [][\A p \in Procs, e \in Executors, t \in Tasks :
           (/\ task[t].state = "Completed"
            /\ UpdateTaskStatuses(p, e, <<[task |-> t, kind |-> "Completed"]>>)) =>
               /\ task' = task
               /\ job_status' = job_status
               /\ calls'[p].events = <<>>
               /\ calls'[p].new_reservations = <<>>]_vars

\* C18: every registered executor has between 0 and task_slots available slots.
C18_AvailableWithinTaskSlots ==
    \A e \in executors :
        /\ 0 <= available_task_slots[e]
        /\ available_task_slots[e] <= total_task_slots[e]


ReserveRequests == 0..(TaskSlots["e1"] + TaskSlots["e2"] + MaxExcess + 1)

\* C16: in every state reserve_slots(n) returns min(n, available slots of the
\* registered executors) free reservations, all of registered executors, and takes
\* each out of the available slots of its executor, none going below 0; with no
\* slot available it returns none.
C16_ReserveSlotsReturnsMin ==
    \A n \in ReserveRequests :
        LET r == ReserveSlots(n, available_task_slots, executors)
        IN  /\ Len(r.reservations) =
                   Min(n, TotalAvailable(available_task_slots, executors))
            /\ \A i \in 1..Len(r.reservations) : r.reservations[i] \in executors
            /\ \A e \in Executors :
                   /\ r.available[e] =
                          available_task_slots[e] - Count(r.reservations, e)
                   /\ r.available[e] >= 0

C16_Witness ==
    /\ executors = Executors
    /\ available_task_slots = [e1 |-> 1, e2 |-> 0]
    /\ outstanding = [e1 |-> 1, e2 |-> 1]
    /\ ReserveSlots(MaxOffer, available_task_slots, executors).reservations = <<"e1">>

\* C17: register_executor with reserve_all hands out task_slots reservations of
\* the executor and leaves it no available slot; without reserve_all it hands out
\* none and reserve_slots can take all its task_slots.
C17_RegisterReserveAll ==
    [][\A e \in Executors, b \in BOOLEAN :
           RegisterExecutor(e, b) =>
               /\ total_task_slots'[e] = TaskSlots[e]
               /\ b => /\ outstanding'[e] = outstanding[e] + TaskSlots[e]
                        /\ available_task_slots'[e] = 0
                        /\ ReserveSlots(TaskSlots[e], available_task_slots', {e}).reservations
                               = <<>>
               /\ ~b => /\ outstanding' = outstanding
                         /\ ReserveSlots(TaskSlots[e], available_task_slots', {e}).reservations
                                = FreeReservations(e, TaskSlots[e])]_vars

C17_Witness ==
    /\ executors = Executors
    /\ available_task_slots = [e1 |-> 0, e2 |-> TaskSlots["e2"]]
    /\ outstanding = [e1 |-> TaskSlots["e1"], e2 |-> 0]


\* C15: an offer_reservation call that cancels a reservation of an executor no
\* longer registered succeeds; the executors that are not registered stay without
\* slots, and each registered executor gets back the slots of its own
\* reservations in the list and nothing more.
C15_DeregisteredReservationDropped ==
    \A p \in Procs :
        (/\ OfferEnded(p) /\ calls[p].outcome = "Ok"
         /\ \E i \in 1..Len(calls[p].cancelled) : calls[p].cancelled[i] \notin executors) =>
            \A e \in Executors :
                IF e \in executors
                THEN available_task_slots[e] =
                         calls[p].available_before[e] + Count(calls[p].cancelled, e)
                ELSE available_task_slots[e] = 0 /\ total_task_slots[e] = 0

C15_Witness ==
    \E p \in Procs :
        /\ OfferEnded(p) /\ calls[p].outcome = "Ok"
        /\ \E i \in 1..Len(calls[p].cancelled) : calls[p].cancelled[i] \notin executors
        /\ \E i \in 1..Len(calls[p].cancelled) : calls[p].cancelled[i] \in executors


\* C19: a task is Running or Completed only if every task of the stage it reads
\* from is Completed.
C19_StageReadiness ==
    \A t \in Tasks :
        task[t].state \in {"Running", "Completed"} =>
            \A u \in InputTasks(t) : task[u].state = "Completed"

C19_Witness ==
    \E t \in Tasks :
        /\ InputTasks(t) # {}
        /\ task[t].state = "Completed"
        /\ job_status[JobOf(t)] = "Completed"

\* C20: the step that makes the last task of a stage Completed turns every task
\* of the next stage from Blocked to Pending and emits StageCompleted; and a task
\* is bound (becomes Running) only from Pending with every task of the stage it
\* reads from Completed, so not before that step.
C20_CompletionCascade ==
    [][/\ \A j \in Jobs : \A s \in 1..(NumStages(j) - 1) :
              (~StageComplete(task, j, s) /\ StageComplete(task', j, s)) =>
                  /\ \A u \in StageTasks(j, s + 1) :
                         task[u].state = "Blocked" /\ task'[u].state = "Pending"
                  /\ \E p \in Procs :
                         /\ calls'[p].op = "update"
                         /\ calls'[p].events = <<<<"StageCompleted", j>>>>
       /\ \A u \in Tasks :
              (task[u].state # "Running" /\ task'[u].state = "Running") =>
                  /\ task[u].state = "Pending"
                  /\ \A v \in InputTasks(u) : task[v].state = "Completed"]_vars

C20_Witness ==
    \E p \in Procs :
        /\ OfferEnded(p) /\ calls[p].outcome = "Ok"
        /\ calls[p].pending_before = 1
        /\ \E i \in 1..Len(calls[p].launched) :
               LET a == calls[p].launched[i]
               IN  /\ InputTasks(a[2]) # {}
                   /\ task[a[2]].state = "Running"
                   /\ a \in dispatched


\* the state changes of a task the transition graph allows: a graph is built
\* (None), a blocked task is unblocked, Pending -> Running -> Completed or Failed
\* (or Cancelled with its job), and a Running task goes back to Pending when its
\* launch or its attempt fails and is retried
AllowedTransition(a, b) ==
    \/ a = b
    \/ a = "None" /\ b \in {"Pending", "Blocked"}
    \/ a = "Blocked" /\ b = "Pending"
    \/ a = "Pending" /\ b = "Running"
    \/ a = "Running" /\ b \in {"Completed", "Failed", "Cancelled", "Pending"}

\* C21: every state change of a task follows the transition graph; no task goes
\* from Pending to Completed without having been Running, and a Completed task
\* keeps its state.
C21_TransitionsFollowGraph ==
    [][\A t \in Tasks : AllowedTransition(task[t].state, task'[t].state)]_vars


\* C22: a retriable failure of a Running task whose attempts stay within the
\* budget puts it back to Pending with its attempt incremented and leaves its job
\* Running; the failure that exceeds the budget fails the task and its job and
\* emits JobFailed.  No other task's attempt changes: attempts are counted per
\* task.
C22_AttemptBudget ==
    [][\A t \in Tasks :
           RetryStatus(t, "FailedRetriable") =>
               /\ IF task[t].attempt + 1 <= TaskRetryBudget
                  THEN /\ task'[t] = [state |-> "Pending", executor |-> NoExecutor,
                                       attempt |-> task[t].attempt + 1]
                       /\ job_status' = job_status
                  ELSE /\ task'[t].state = "Failed"
                       /\ job_status'[JobOf(t)] = "Failed"
               /\ \A u \in Tasks \ {t} : task'[u].attempt = task[u].attempt]_vars

C22_Witness ==
    \E t, u \in Tasks :
        /\ t # u /\ JobOf(t) = JobOf(u)
        /\ task[t].state = "Failed" /\ task[t].attempt = TaskRetryBudget
        /\ task[u].attempt = TaskRetryBudget
        /\ job_status[JobOf(t)] = "Failed"


\* C23: an update_task_statuses call that delivers a fatal failure of a Running
\* task, every Running task of its job having been launched, fails the job, emits JobFailed, leaves no task of the job Running, and
\* returns one reservation for each task of the job that was Running, on the
\* executor it was Running on.
C23_JobFailureReclaimsSlots ==
    [][\A p \in Procs, e \in Executors, t \in Tasks :
           (/\ t \in RunningOn(task, e)
            /\ job_status[JobOf(t)] = "Running"
            /\ \A u \in JobTasks(JobOf(t)) :
                   task[u].state = "Running" => <<task[u].executor, u>> \in dispatched
            /\ UpdateTaskStatuses(p, e, <<[task |-> t, kind |-> "FailedFatal"]>>)) =>
               /\ job_status'[JobOf(t)] = "Failed"
               /\ calls'[p].events = <<<<"JobFailed", JobOf(t)>>>>
               /\ \A u \in JobTasks(JobOf(t)) : task'[u].state # "Running"
               /\ \A x \in Executors :
                      Count(calls'[p].new_reservations, x) =
                          Cardinality(RunningOn(task, x) \cap JobTasks(JobOf(t)))]_vars


\* C24: a submit_job call that succeeds emits ReservationsNeeded(n), n the number
\* of tasks of the job that are Pending once the graph is built.
C24_SubmitSolicitsReservations ==
    [][\A j \in Jobs :
           SubmitJob(j, TRUE) =>
               SubmitJobEvents(j, TRUE) =
                   <<<<"ReservationsNeeded",
                       Cardinality({t \in JobTasks(j) : task'[t].state = "Pending"})>>>>]_vars

\* C25: submit_job of a job whose graph has no partition makes the job Completed
\* in that step, no task and no reservation being touched; such a job is never
\* Running.
C25_EmptyJobCompletesOnSubmit ==
    [][\A j \in Jobs :
           JobTasks(j) = {} =>
               /\ job_status'[j] # "Running"
               /\ SubmitJob(j, TRUE) =>
                      /\ job_status'[j] = "Completed"
                      /\ task' = task
                      /\ outstanding' = outstanding
                      /\ available_task_slots' = available_task_slots]_vars

C25_Witness ==
    \E j \in Jobs :
        /\ JobTasks(j) = {}
        /\ job_status[j] = "Completed"
        /\ \E k \in Jobs : job_status[k] = "Running"


C27_NoneRunningOnDeregistered ==
    \A p \in Procs :
        OfferReturned(p) =>
            LET bound == calls[p].launched \o calls[p].failed
            IN  \A i \in 1..Len(bound) :
                    LET e == bound[i][1]
                        t == bound[i][2]
                    IN  (task[t].state = "Running" /\ task[t].executor = e) =>
                            e \in executors

\* A task no step can move again: it is Running on an expired executor that was
\* never handed it, so that no status for it will be reported, and no expiry
\* will fail it.
Orphaned(t) ==
    /\ task[t].state = "Running"
    /\ task[t].executor \in retired
    /\ <<task[t].executor, t>> \notin dispatched

\* A job that can no longer move: it is Running, the only call in progress is
\* an offer_reservation that has returned, which bound one of its tasks to an
\* expired executor and left it Running, and each of its tasks is Completed,
\* Blocked or orphaned.
Stuck(j) ==
    /\ job_status[j] = "Running"
    /\ \E p \in Procs :
           /\ OfferReturned(p)
           /\ \A q \in Procs \ {p} : calls[q].pc = "idle"
           /\ \E i \in 1..Len(calls[p].failed) :
                  /\ calls[p].failed[i][2] \in JobTasks(j)
                  /\ Orphaned(calls[p].failed[i][2])
    /\ \A t \in JobTasks(j) :
           task[t].state \in {"Completed", "Blocked"} \/ Orphaned(t)

\* C28: every submitted job eventually becomes Completed or Failed; in
\* particular no reachable state holds a job that can never move again.
C28_NoJobStuck ==
    \A j \in Jobs : ~Stuck(j)

\* a stuck job stays as it is: no step changes its status or any of its tasks
StuckForever ==
    [][\A j \in Jobs :
          (job_status[j] = "Running"
           /\ \A p \in Procs : calls[p].assignments = <<>>
           /\ \A t \in JobTasks(j) :
                  task[t].state \in {"Completed", "Blocked"} \/ Orphaned(t))
          => (job_status'[j] = job_status[j]
              /\ \A t \in JobTasks(j) : task'[t] = task[t])]_vars


\* the step in which call p gets the result of fill_reservations
Filled(p) == calls[p].pc = "idle" /\ calls'[p].op = "offer" /\ calls'[p].fill = "Ok"

\* C29: fill_reservations partitions its input: the assignments and the
\* unassigned reservations together are the input reservations, executor by
\* executor; the tasks of one pass are distinct; and each was Pending before
\* the pass, so that none is among the assignments of a concurrent pass.
C29_FillPartitionsInput ==
    [][\A p \in Procs :
          Filled(p) =>
              LET R == calls'[p].reservations
                  A == calls'[p].assignments
                  U == calls'[p].unassigned
              IN  /\ Len(A) + Len(U) = Len(R)
                  /\ \A e \in Executors : CountExecutor(A, e) + Count(U, e) = Count(R, e)
                  /\ Cardinality(TasksOf(A)) = Len(A)
                  /\ \A t \in TasksOf(A) :
                         /\ task[t].state = "Pending"
                         /\ \A q \in Procs \ {p} : t \notin TasksOf(calls[q].assignments)]_vars

\* a pass has just bound one of two reservations and left the other, while a
\* concurrent pass still holds an assignment of its own
C29_Witness ==
    \E p \in Procs :
        /\ calls[p].op = "offer" /\ calls[p].fill = "Ok" /\ calls[p].pc = "metadata"
        /\ Len(calls[p].reservations) = 2
        /\ Len(calls[p].assignments) = 1 /\ Len(calls[p].unassigned) = 1
        /\ \E q \in Procs \ {p} : calls[q].assignments # <<>>


\* C30: matching is work-conserving: a pass of fill_reservations binds as many
\* reservations as there were Pending tasks of running jobs, so that it leaves
\* a reservation unassigned only when no Pending task remains, whether or not
\* a Pending task is local to the reservation's executor.
C30_WorkConserving ==
    [][\A p \in Procs :
          Filled(p) =>
              /\ Len(calls'[p].assignments) =
                     Min(Len(calls'[p].reservations),
                         Cardinality(PendingTasks(task, job_status)))
              /\ calls'[p].unassigned # <<>> => PendingTasks(task', job_status') = {}]_vars

\* a pass was given two reservations with one task Pending, which is not local
\* to the executor of the first: the first is bound to it, the second is left
C30_Witness ==
    \E p \in Procs :
        /\ calls[p].op = "offer" /\ calls[p].fill = "Ok" /\ calls[p].pc = "metadata"
        /\ Len(calls[p].assignments) = 1 /\ Len(calls[p].unassigned) = 1
        /\ LET a == calls[p].assignments[1]
           IN  /\ InputTasks(a[2]) # {}
               /\ ~IsLocal(a[2], a[1], task)
               /\ IsLocal(a[2], calls[p].unassigned[1], task)


\* C31: the pending task count that fill_reservations returns is the number of
\* Pending tasks of running jobs left unbound by the pass; it is 0 exactly when
\* none is left.
C31_PendingCountAfterPass ==
    [][\A p \in Procs :
          Filled(p) =>
              /\ calls'[p].pending_tasks = Cardinality(PendingTasks(task', job_status'))
              /\ calls'[p].pending_tasks =
                     Cardinality(PendingTasks(task, job_status)) - Len(calls'[p].assignments)
              /\ (calls'[p].pending_tasks = 0) <=> (PendingTasks(task', job_status') = {})]_vars

\* a pass has bound a task and another task is still Pending
C31_Witness ==
    \E p \in Procs :
        /\ calls[p].op = "offer" /\ calls[p].fill = "Ok" /\ calls[p].pc = "metadata"
        /\ calls[p].assignments # <<>>
        /\ calls[p].pending_tasks > 0
        /\ calls[p].pending_tasks < calls[p].pending_before


\* C32: when fill_reservations fails and the cancellation succeeds,
\* offer_reservation has cancelled exactly the reservations it was offered, has
\* launched nothing and reserved nothing, and returns Ok(empty): every slot
\* offered on a registered executor is available again.
C32_FillErrorCancelsInput ==
    \A p \in Procs :
        (OfferEnded(p) /\ calls[p].fill = "Err" /\ calls[p].outcome = "Ok") =>
            /\ calls[p].cancelled = calls[p].reservations
            /\ calls[p].pending_tasks = 0
            /\ calls[p].new_reservations = <<>>
            /\ calls[p].launched = <<>> /\ calls[p].failed = <<>>
            /\ Cardinality(PendingTasks(task, job_status)) = calls[p].pending_before
            /\ \A e \in executors :
                   available_task_slots[e] =
                       calls[p].available_before[e] + Count(calls[p].reservations, e)

\* a pass failed while a task was Pending, and the call has returned Ok after
\* cancelling the reservations it was offered
C32_Witness ==
    \E p \in Procs :
        /\ OfferEnded(p) /\ calls[p].fill = "Err" /\ calls[p].outcome = "Ok"
        /\ Len(calls[p].reservations) = 2
        /\ calls[p].pending_before > 0
        /\ \E e \in executors : Count(calls[p].reservations, e) > 0


\* C33: update_task_statuses for an executor without metadata returns an error
\* and nothing else happens: no task and no job changes, no event and no
\* reservation is returned, and the slots of the executors are as they were.
C33_UnknownExecutorChangesNothing ==
    [][\A p \in Procs :
          (/\ calls[p].pc = "idle"
           /\ calls'[p].op = "update"
           /\ calls'[p].executor_id \notin executors) =>
              /\ calls'[p].outcome = "Err"
              /\ calls'[p].events = <<>>
              /\ calls'[p].reservations = <<>>
              /\ calls'[p].new_reservations = <<>>
              /\ UNCHANGED <<emVars, tmVars, outstanding, dispatched>>]_vars

\* the call has failed for an unknown executor while a task was Running
C33_Witness ==
    \E p \in Procs :
        /\ calls[p].op = "update" /\ calls[p].pc = "done" /\ calls[p].outcome = "Err"
        /\ calls[p].executor_id \notin executors
        /\ \E t \in Tasks : task[t].state = "Running"


\* a step of the cfg(test) path of update_task_statuses agrees with the
\* cfg(not(test)) path followed by cancel_reservations of what it returned
\* (cancelled: whether that cancellation succeeds)
AgreesWithNonTest(p, e, statuses, cancelled) ==
    LET N == NonTestResult(e, statuses)
    IN  /\ task' = N.task
        /\ job_status' = N.job_status
        /\ available_task_slots' =
               IF cancelled
               THEN CancelReservations(N.reservations, available_task_slots, executors)
               ELSE available_task_slots
        /\ calls'[p].events = N.events

\* C34: from the same state and with the same statuses, the cfg(test) path of
\* update_task_statuses leaves the state that the cfg(not(test)) path leaves
\* once the reservations it returned are cancelled, and it hands its caller the
\* same events.
C34_TestPathEquivalent ==
    [][\A p \in Procs, e \in Executors, sts \in StatusLists :
          /\ UpdateTaskStatusesTest(p, e, sts) => AgreesWithNonTest(p, e, sts, TRUE)
          /\ UpdateTaskStatusesTestCancelErr(p, e, sts) =>
                 AgreesWithNonTest(p, e, sts, FALSE)]_vars

\* the two paths agree whenever the cancellation of the test path succeeds
TestPathEquivalentWhenCancelled ==
    [][\A p \in Procs, e \in Executors, sts \in StatusLists :
          UpdateTaskStatusesTest(p, e, sts) => AgreesWithNonTest(p, e, sts, TRUE)]_vars


\* reservations of e that invocation p has in its hands and has not bound to a
\* task: those it still has to cancel, and those it is about to return
InHand(p, e) ==
    IF calls[p].op = "offer" /\ calls[p].pc # "done" THEN Count(calls[p].free_list, e)
    ELSE IF calls[p].pc = "done" THEN Count(calls[p].new_reservations, e)
    ELSE 0

\* C35: however the handler invocations interleave, no slot of a registered
\* executor is handed out twice: its reservations, outstanding or in the hands
\* of an invocation, its Running tasks and its available slots together never
\* exceed its task_slots.
C35_NoSlotHandedOutTwice ==
    \A e \in executors :
        available_task_slots[e] + outstanding[e]
            + SumOver([p \in Procs |-> InHand(p, e)], Procs)
            + Cardinality(RunningOn(task, e))
        <= total_task_slots[e]


\* C36: offer_reservation never both cancels and reserves: when it returns
\* reservations it has cancelled none, every reservation it was offered was
\* bound and launched, pending tasks were left, and the reservations returned
\* are at most as many as those, none being for a task it launched.
C36_CancelsOrReserves ==
    \A p \in Procs :
        (OfferEnded(p) /\ calls[p].new_reservations # <<>>) =>
            /\ calls[p].outcome = "Ok"
            /\ calls[p].cancelled = <<>>
            /\ calls[p].fill = "Ok"
            /\ calls[p].unassigned = <<>> /\ calls[p].failed = <<>>
            /\ Len(calls[p].launched) = Len(calls[p].reservations)
            /\ calls[p].pending_tasks > 0
            /\ Len(calls[p].new_reservations) <= calls[p].pending_tasks
            /\ TasksOf(calls[p].launched) \cap PendingTasks(task, job_status) = {}

\* a call has launched the reservation it was offered and returns a new one,
\* for the task left Pending
C36_Witness ==
    \E p \in Procs :
        /\ OfferEnded(p) /\ calls[p].new_reservations # <<>>
        /\ calls[p].launched # <<>>
        /\ calls[p].cancelled = <<>>
        /\ PendingTasks(task, job_status) # {}


C38_PlanFailureBuildsNoGraph ==
    [][\A j \in Jobs :
          (j \in plan_failed' /\ j \notin plan_failed) =>
              /\ job_status'[j] = "None"
              /\ \A t \in JobTasks(j) : task'[t].state = "None"
              /\ UNCHANGED <<emVars, tmVars, outstanding, dispatched, calls>>]_vars

\* the plan of a job with partitions has failed while an executor had slots
C38_Witness ==
    \E j \in plan_failed :
        /\ JobTasks(j) # {}
        /\ job_status[j] = "None"
        /\ executors # {}


\* the step in which a CREATE EXTERNAL TABLE call of p ends
SqlCreateEnds(p) ==
    /\ calls'[p].op = "sql" /\ calls'[p].pc = "done" /\ calls[p].pc # "done"
    /\ calls'[p].name # NoTable

\* C39: CREATE EXTERNAL TABLE never replaces a registered table: a call that
\* ends Ok for a name that was not registered has registered its table; for a
\* name that is registered the map of tables is left as it was, the call
\* ending Ok with IF NOT EXISTS and with an error without it.
C39_CreateNeverReplaces ==
    [][\A p \in Procs :
          SqlCreateEnds(p) =>
              LET n == calls'[p].name
              IN  IF tables[n] = NoTable
                  THEN /\ calls'[p].outcome = "Ok" => tables' = [tables EXCEPT ![n] = calls'[p].provider]
                       /\ calls'[p].outcome # "Ok" => tables' = tables
                  ELSE /\ tables' = tables
                       /\ calls'[p].outcome = IF calls'[p].if_not_exists THEN "Ok" ELSE "Err"]_vars


=============================================================================
